---------------------------- MODULE Spec2Model ----------------------------
(***************************************************************************)
(* A state-machine model of the gameplay core of in_da_dungeon: the        *)
(* kinematic controller and swept tile resolver of src/src/movement.rs,    *)
(* the collision map of src/src/collision.rs and the level transition of   *)
(* src/src/transition.rs, driven by the game-state machine of              *)
(* src/src/state.rs and src/src/level.rs.                                  *)
(*                                                                         *)
(* Numbers.  The program computes in f32.  Motion is modelled in exact      *)
(* fixed point, so f32 rounding of positions and velocities is not         *)
(* modelled:                                                               *)
(*   time      1 = 1 ms                                                    *)
(*   velocity  1 = 0.05 world units per second                             *)
(*   length    1 = 0.00005 world units  (velocity * time, exactly)         *)
(* so that velocity * dt is a length with no rounding, and every program   *)
(* constant below is an integer: SKIN 0.001 = 20, a 16.0 tile = 320000,    *)
(* gravity 1150.0 units/s^2 = 23 velocity units per ms, and so on.         *)
(* The fade timer is modelled as the f32 it is: in the transition systems  *)
(* time 1 = 2^-29 s, every time is an f32 value, and each f32 addition and *)
(* subtraction rounds to 24 significant bits, ties to even (operator f32). *)
(***************************************************************************)
EXTENDS Integers, FiniteSets, Sequences, TLC

VARIABLES
    \* KinematicBody: Transform.translation, Velocity, MovementState
    position, velocity, on_ground, wants_jump, axis,
    \* CollisionMap
    solids, tile_values,
    \* the frame's Time::delta_seconds
    dt,
    \* history: the system that ran last, and the number of kinematic ticks
    last, ticks,
    \* history of the last read_player_input: whether it saw a jump press
    press,
    \* history of the last apply_kinematics: the intent it captured, the
    \* grounded value it computed, its collision flags, whether it jumped
    tick_info,
    \* history of jump presses: a press made while airborne that no impulse
    \* has answered yet, and the impulses given since the last press
    owed, impulses,
    \* history for the resting body: where it started, and whether it started
    \* at rest on a tile top and every tick so far had dt = 0 and no input
    start, rest,
    \* TransitionState
    is_transitioning, fade_timer, fade_duration, next_level_path, next_level_name,
    \* LevelConfig.project_path and .start_level, LevelAssets.project_path
    project_path, start_level, assets_project_path,
    \* State<GameState> and NextState<GameState>
    game_state, next_state,
    \* the Update systems of the current frame that have not run yet
    todo,
    \* history: the level swaps done since the last start_transition, and
    \* whether the player given to the last check_level_triggers touched a
    \* trigger tile
    swaps, on_trigger,
    \* the IntGridCell entities in the world, in the order the query of
    \* rebuild_collision_map yields them, and the LevelEvents it has not read
    world_cells, events,
    \* the number of Player entities, and LevelAssets.level_origin
    players, level_origin,
    \* the asset server's load state of LevelAssets.project
    load_state,
    \* history of the collision map: the first population (its cells and the
    \* map built from them), the events the last rebuild_collision_map read,
    \* and whether the map was rebuilt since the last spawn_world
    first, batch, map_fresh,
    \* history: the systems that have run in the current frame
    ran,
    \* the number of FadeOverlay entities, counted up to MaxOverlays
    overlays

body_vars == <<position, velocity, on_ground, wants_jump, axis>>
map_vars == <<solids, tile_values>>
hist_vars == <<press, tick_info, owed, impulses, start, rest>>
transition_vars == <<is_transitioning, fade_timer, fade_duration,
                     next_level_path, next_level_name>>
level_vars == <<project_path, start_level, assets_project_path>>
state_vars == <<game_state, next_state>>
game_vars == <<is_transitioning, fade_timer, fade_duration, next_level_path,
               next_level_name, project_path, start_level, assets_project_path,
               game_state, next_state, todo, swaps, on_trigger,
               world_cells, events, players, level_origin, load_state, overlays,
               first, batch, map_fresh, ran>>
world_vars == <<world_cells, events, players, level_origin, load_state, overlays,
                first, batch, map_fresh, ran>>
vars == <<position, velocity, on_ground, wants_jump, axis, solids, tile_values,
          dt, last, ticks, press, tick_info, owed, impulses, start, rest,
          is_transitioning, fade_timer, fade_duration, next_level_path,
          next_level_name, project_path, start_level, assets_project_path,
          game_state, next_state, todo, swaps, on_trigger,
          world_cells, events, players, level_origin, load_state, overlays,
          first, batch, map_fresh, ran>>

---------------------------------------------------------------------------
(* Program constants, in the units above. *)

\* movement.rs:207  const SKIN: f32 = 0.001
SKIN == 20
\* level.rs:66  tile_size: 16.0
TileSize == 320000
\* player.rs:57  sprite_size = Vec2::splat(32.0)
SpriteSize == 640000
\* movement.rs:40  gravity: 1150.0  (per ms: 1.15 units/s = 23)
gravity == 23
\* movement.rs:41  terminal_velocity: -1800.0
terminal_velocity == -36000
\* movement.rs:65..69  PlayerController::default
ground_accel == 32
air_accel == 24
ground_max_speed == 6500
air_max_speed == 5500
jump_strength == 9600
\* movement.rs:130  velocity.x.abs() < 1.0
StopSpeed == 20

\* collision.rs:90  map.tile_size = Vec2::splat(config.tile_size)
tile_size == [x |-> TileSize, y |-> TileSize]
\* collision.rs:91  map.origin = level_origin.unwrap_or(Vec2::ZERO); every
\* formula of the program reads positions relative to the origin only.
origin == [x |-> 0, y |-> 0]
\* movement.rs:101..105  Collider::from_size(size): half_extents = size * 0.5
half == [x |-> SpriteSize \div 2, y |-> SpriteSize \div 2]

\* One second of the transition clock, in units of 2^-29 s.
Second == 2^29
\* transition.rs:46  self.fade_duration = 1.0
FadeDuration == Second

\* The unit in the last place of an f32 holding x >= 2^24.
RECURSIVE ulp_of(_, _)
ulp_of(x, q) == IF x \div 2^24 < q THEN q ELSE ulp_of(x, 2 * q)
\* transition.rs:36  fade_timer: f32.  The f32 nearest to the exact value
\* x >= 0: 24 significant bits, ties to the even significand.
f32(x) ==
    IF x < 2^24 THEN x
    ELSE LET q == ulp_of(x, 2)
             r == x % q
             lo == x - r
         IN  IF 2 * r < q THEN lo
             ELSE IF 2 * r > q THEN lo + q
             ELSE IF (lo \div q) % 2 = 0 THEN lo ELSE lo + q

\* Option<T>
None == <<>>
Some(v) == <<v>>

\* level.rs:63..64, transition.rs:208..213
Level1 == "levels/test_map_1_newres.ldtk"
Level2 == "levels/level_2.ldtk"
Level_0 == "Level_0"

\* The resources as the plugins build them: TransitionState::default
\* (transition.rs:33..40: fade_duration is 0.0 until the first
\* start_transition), LevelConfig::default (level.rs:60..70), the default
\* GameState (state.rs:11..12) entered, which runs spawn_world
\* (level.rs:104..106).
GameAsBuilt ==
    /\ is_transitioning = FALSE /\ fade_timer = 0 /\ fade_duration = 0
    /\ next_level_path = None /\ next_level_name = None
    /\ project_path = Level1 /\ start_level = Some(Level_0)
    /\ assets_project_path = Some(Level1)
    /\ game_state = "Loading" /\ next_state = None
    /\ todo = {}
    /\ swaps = 0 /\ on_trigger = FALSE
    /\ world_cells = <<>> /\ events = {}
    /\ players = 0 /\ level_origin = None
    /\ load_state = "Loading"
    /\ overlays = 0
    /\ first = None /\ batch = {} /\ map_fresh = FALSE
    /\ ran = {}

---------------------------------------------------------------------------
(* f32 helpers. *)

Abs(v) == IF v < 0 THEN 0 - v ELSE v

\* f32::signum: 1.0 for a positive number and for +0.0, -1.0 for a negative
\* one.  The program never produces -0.0 in a velocity (it assigns the
\* literal 0.0, subtracts gravity * dt with dt >= 0, or adds), so zero is +0.0.
Signum(v) == IF v >= 0 THEN 1 ELSE -1

\* v.abs() < f32::EPSILON: the smallest non-zero magnitude of the model is far
\* above f32::EPSILON, so the test is a test for zero.
BelowEpsilon(v) == v = 0

\* ((coord - origin) / size).floor() as i32; \div is the floor division.
TileCoord(coord, org, size) == (coord - org) \div size

\* collision.rs:51..53  CollisionMap::is_solid
is_solid(sol, tile) == tile \in sol

---------------------------------------------------------------------------
(* movement.rs: the swept axis resolver. *)

\* movement.rs:212..258.  Returns the new position.x and velocity.x.
resolve_horizontal(pos, vx, d, sol) ==
    IF BelowEpsilon(vx) THEN [x |-> pos.x, vx |-> vx]
    ELSE
      LET new_x == pos.x + vx * d
          dir == Signum(vx)
          bottom == pos.y - half.y + SKIN
          top == pos.y + half.y - SKIN
          min_tile_y == TileCoord(bottom, origin.y, tile_size.y)
          max_tile_y == TileCoord(top, origin.y, tile_size.y)
          edge == IF dir > 0 THEN new_x + half.x ELSE new_x - half.x
          tile_x == TileCoord(edge, origin.x, tile_size.x)
          hit == \E ty \in min_tile_y..max_tile_y : is_solid(sol, <<tile_x, ty>>)
          tile_left == origin.x + tile_x * tile_size.x
          tile_right == origin.x + (tile_x + 1) * tile_size.x
      IN  IF dir > 0 /\ hit THEN [x |-> tile_left - half.x - SKIN, vx |-> 0]
          ELSE IF dir < 0 /\ hit THEN [x |-> tile_right + half.x + SKIN, vx |-> 0]
          ELSE [x |-> new_x, vx |-> vx]

\* movement.rs:263..312.  Takes the position already moved by the horizontal
\* pass; returns the new position.y, velocity.y and the VerticalCollision.
resolve_vertical(pos, vy, d, sol) ==
    LET new_y == pos.y + vy * d
        dir == Signum(vy)
        left == pos.x - half.x + SKIN
        right == pos.x + half.x - SKIN
        min_tile_x == TileCoord(left, origin.x, tile_size.x)
        max_tile_x == TileCoord(right, origin.x, tile_size.x)
        edge == IF dir < 0 THEN new_y - half.y ELSE new_y + half.y
        tile_y == TileCoord(edge, origin.y, tile_size.y)
        hit == \E tx \in min_tile_x..max_tile_x : is_solid(sol, <<tx, tile_y>>)
        tile_top == origin.y + (tile_y + 1) * tile_size.y
        tile_bottom == origin.y + tile_y * tile_size.y
    IN  IF dir < 0 /\ hit
          THEN [y |-> tile_top + half.y + SKIN, vy |-> 0, down |-> TRUE, up |-> FALSE]
        ELSE IF dir > 0 /\ hit
          THEN [y |-> tile_bottom - half.y - SKIN, vy |-> 0, down |-> FALSE, up |-> TRUE]
        ELSE [y |-> new_y, vy |-> vy, down |-> FALSE, up |-> FALSE]

resolve_axes_on_old_x(pos, vel, d, sol) ==
    LET h == resolve_horizontal(pos, vel.x, d, sol)
        v == resolve_vertical(pos, vel.y, d, sol)
    IN  [position |-> [x |-> h.x, y |-> v.y],
         velocity |-> [x |-> h.vx, y |-> v.vy],
         down |-> v.down, up |-> v.up]
\* movement.rs:181..186: the horizontal pass, then the vertical pass on the
\* position the horizontal pass produced.
resolve_axes(pos, vel, d, sol) ==
    LET h == resolve_horizontal(pos, vel.x, d, sol)
        v == resolve_vertical([x |-> h.x, y |-> pos.y], vel.y, d, sol)
    IN  [position |-> [x |-> h.x, y |-> v.y],
         velocity |-> [x |-> h.vx, y |-> v.vy],
         down |-> v.down, up |-> v.up]

---------------------------------------------------------------------------
(* movement.rs: input sampling and the kinematic tick. *)

move_past(current, target, max_delta) ==
    current + Signum(target - current) * max_delta
\* movement.rs:316..323
move_towards(current, target, max_delta) ==
    LET delta == target - current
    IN  IF Abs(delta) <= max_delta THEN target
        ELSE current + Signum(delta) * max_delta

never_probed(pos, sol) == FALSE
\* movement.rs:328..350
grounded_check(pos, sol) ==
    LET foot == pos.y - half.y
        probe == foot - SKIN * 2
        tile_y == TileCoord(probe, origin.y, tile_size.y)
        left == pos.x - half.x + SKIN
        right == pos.x + half.x - SKIN
        min_tile_x == TileCoord(left, origin.x, tile_size.x)
        max_tile_x == TileCoord(right, origin.x, tile_size.x)
        tile_top == origin.y + (tile_y + 1) * tile_size.y
    IN  \E tx \in min_tile_x..max_tile_x :
            is_solid(sol, <<tx, tile_y>>) /\ foot >= tile_top - SKIN * 4

gravity_unclamped(vy, og, d) ==
    IF ~og THEN vy - gravity * d
    ELSE IF vy < 0 THEN 0
    ELSE vy
\* movement.rs:159..166: gravity while airborne, clamped at the terminal
\* velocity; a grounded body loses its downward velocity.
gravity_step(vy, og, d) ==
    IF ~og
      THEN LET v == vy - gravity * d
           IN  IF v < terminal_velocity THEN terminal_velocity ELSE v
    ELSE IF vy < 0 THEN 0
    ELSE vy

\* movement.rs:168..179
accel_step(vx, og, ax, d) ==
    LET accel_rate == IF og THEN ground_accel ELSE air_accel
        max_speed == IF og THEN ground_max_speed ELSE air_max_speed
    IN  IF ~BelowEpsilon(ax)
          THEN move_towards(vx, ax * max_speed, accel_rate * d)
          ELSE move_towards(vx, 0, accel_rate * d)

intent_kept(wj, honoured) == wj
intent_kept_unless_honoured(wj, honoured) == wj /\ ~honoured
\* movement.rs:156..157: the intent is captured and state.wants_jump is
\* cleared, whether or not the jump is honoured later in the tick.
intent_after_tick(wj, honoured) == FALSE

jump_in_mid_air(wj, grounded) == wj
\* movement.rs:192: if wants_jump && state.on_ground
jump_honoured(wj, grounded) == wj /\ grounded

\* movement.rs:153..198: one tick for the player's components.  Returns the
\* components after the tick and what the tick did.
apply_kinematics(pos, vel, og, wj, ax, d, sol) ==
    LET vy1 == gravity_step(vel.y, og, d)
        vx1 == accel_step(vel.x, og, ax, d)
        r == resolve_axes(pos, [x |-> vx1, y |-> vy1], d, sol)
        grounded == r.down \/ grounded_check(r.position, sol)
        jump == jump_honoured(wj, grounded)
    IN  [position |-> r.position,
         velocity |-> [x |-> r.velocity.x,
                       y |-> IF jump THEN jump_strength ELSE r.velocity.y],
         on_ground |-> IF jump THEN FALSE ELSE grounded,
         wants_jump |-> intent_after_tick(wj, jump),
         info |-> [wanted |-> wj, grounded |-> grounded, jumped |-> jump,
                   down |-> r.down, up |-> r.up, air |-> FALSE, landed |-> FALSE]]

\* tick_info before any tick.  air: the intent the tick captured was a press
\* made while airborne.  landed: a tick has reported a downward collision
\* without jumping, and every tick since had no jump intent and ended with
\* the footprint, inset by SKIN, over a solid tile directly below.
NoTick == [wanted |-> FALSE, grounded |-> FALSE, jumped |-> FALSE,
           down |-> FALSE, up |-> FALSE, air |-> FALSE, landed |-> FALSE]

\* The horizontal footprint of a body at pos, resting where a downward
\* collision leaves it (movement.rs:290: tile top + half.y + SKIN), covers a
\* solid tile directly below.
StandsOver(pos, sol) ==
    \E t \in sol :
        /\ origin.y + (t[2] + 1) * tile_size.y = pos.y - half.y - SKIN
        /\ pos.x + half.x > origin.x + t[1] * tile_size.x
        /\ pos.x - half.x < origin.x + (t[1] + 1) * tile_size.x

\* The same for the footprint inset by SKIN on both sides, which is the span
\* of columns the vertical pass and the foot probe sample (movement.rs:
\* 277..282, 335..337).
StandsOverInset(pos, sol) ==
    \E t \in sol :
        /\ origin.y + (t[2] + 1) * tile_size.y = pos.y - half.y - SKIN
        /\ pos.x + half.x - SKIN >= origin.x + t[1] * tile_size.x
        /\ pos.x - half.x + SKIN < origin.x + (t[1] + 1) * tile_size.x

\* movement.rs:110..134.  left, right: the held move keys; jump: Space or
\* ArrowUp just pressed.
ReadPlayerInput(left, right, jump) ==
    LET a == (IF left THEN -1 ELSE 0) + (IF right THEN 1 ELSE 0)
    IN  /\ axis' = a
        /\ wants_jump' = (IF jump THEN TRUE ELSE wants_jump)
        /\ velocity' = IF BelowEpsilon(a) /\ on_ground /\ Abs(velocity.x) < StopSpeed
                         THEN [velocity EXCEPT !.x = 0]
                         ELSE velocity
        /\ UNCHANGED <<position, on_ground>>
        /\ press' = jump
        /\ owed' = (IF jump THEN ~on_ground ELSE owed)
        /\ impulses' = (IF jump THEN 0 ELSE impulses)
        /\ rest' = (rest /\ a = 0 /\ ~jump)
        /\ UNCHANGED <<tick_info, start>>

\* movement.rs:139..199 with dt = d.
ApplyKinematics(d) ==
    LET t == apply_kinematics(position, velocity, on_ground, wants_jump, axis, d, solids)
    IN  /\ position' = t.position
        /\ velocity' = t.velocity
        /\ on_ground' = t.on_ground
        /\ wants_jump' = t.wants_jump
        /\ UNCHANGED axis
        /\ tick_info' = [t.info EXCEPT
               !.air = owed /\ wants_jump,
               !.landed = \/ (t.info.down /\ ~t.info.jumped)
                          \/ /\ tick_info.landed /\ ~wants_jump
                             /\ StandsOverInset([x |-> t.position.x, y |-> position.y],
                                                solids)]
        /\ owed' = (owed /\ ~t.info.jumped)
        /\ impulses' = impulses + (IF t.info.jumped THEN 1 ELSE 0)
        /\ rest' = (rest /\ d = 0)
        /\ UNCHANGED <<press, start>>

---------------------------------------------------------------------------
(* Geometry used to state the claims about the resolver. *)

\* How deep the body's AABB reaches into a tile along each axis (<= 0: not at all).
PenX(pos, tile) ==
    LET lo == origin.x + tile[1] * tile_size.x
        l == pos.x - half.x
        r == pos.x + half.x
    IN  (IF r < lo + tile_size.x THEN r ELSE lo + tile_size.x) - (IF l > lo THEN l ELSE lo)
PenY(pos, tile) ==
    LET lo == origin.y + tile[2] * tile_size.y
        b == pos.y - half.y
        t == pos.y + half.y
    IN  (IF t < lo + tile_size.y THEN t ELSE lo + tile_size.y) - (IF b > lo THEN b ELSE lo)

\* The AABB overlaps the interior of the tile.
Overlaps(pos, tile) == PenX(pos, tile) > 0 /\ PenY(pos, tile) > 0

\* The tiles within one tile of the AABB: all a move shorter than a tile can reach.
TilesNear(pos) ==
    LET x0 == TileCoord(pos.x - half.x, origin.x, tile_size.x) - 1
        x1 == TileCoord(pos.x + half.x, origin.x, tile_size.x) + 1
        y0 == TileCoord(pos.y - half.y, origin.y, tile_size.y) - 1
        y1 == TileCoord(pos.y + half.y, origin.y, tile_size.y) + 1
    IN  (x0..x1) \X (y0..y1)

---------------------------------------------------------------------------
(* SpecResolve: the resolver as a function of its inputs.  Init draws a body *)
(* clear of every solid tile, a velocity and a tick shorter than a tile per  *)
(* axis, and a tile configuration; ResolveAxes applies both passes.          *)

\* the most solid tiles of a drawn tile configuration
MaxSolids == 1
\* the tick of the resolver inputs, ms
ResolveDt == 5
\* the body sits on the grid lines at Aligned, or off them by less than, or by
\* exactly, one SKIN
Aligned == [x |-> 2 * TileSize, y |-> 2 * TileSize]
Offsets == {0 - SKIN, 0 - (SKIN \div 2), 0, SKIN \div 2, SKIN}
\* speeds that move the body by about half a SKIN, about one SKIN, and just
\* under one tile per tick
Slow == (SKIN \div 2) \div ResolveDt
Fast == TileSize \div ResolveDt - 1
Speeds == {0 - Fast, 0 - 2 * Slow, 0 - Slow, 0, Slow, 2 * Slow, Fast}

ResolveTiles == TilesNear(Aligned)
RECURSIVE SubsetsUpTo(_, _)
SubsetsUpTo(S, k) ==
    IF k = 0 THEN {{}}
    ELSE LET smaller == SubsetsUpTo(S, k - 1)
         IN  smaller \cup {s \cup {t} : s \in smaller, t \in S}
TileSets == SubsetsUpTo(ResolveTiles, MaxSolids)

InitResolve ==
    /\ position \in {[x |-> Aligned.x + ox, y |-> Aligned.y + oy] : ox \in Offsets, oy \in Offsets}
    /\ velocity \in {[x |-> vx, y |-> vy] : vx \in Speeds, vy \in Speeds}
    /\ dt = ResolveDt
    /\ Abs(velocity.x) * dt < tile_size.x
    /\ Abs(velocity.y) * dt < tile_size.y
    /\ solids \in TileSets
    /\ \A t \in solids : ~Overlaps(position, t)
    /\ tile_values = [t \in solids |-> 1]
    /\ on_ground = TRUE /\ wants_jump = FALSE /\ axis = 0
    /\ last = "init" /\ ticks = 0
    /\ press = FALSE /\ tick_info = NoTick /\ owed = FALSE /\ impulses = 0
    /\ start = position /\ rest = FALSE
    /\ GameAsBuilt

ResolveAxes ==
    /\ last = "init"
    /\ LET r == resolve_axes(position, velocity, dt, solids)
       IN  /\ position' = r.position
           /\ velocity' = r.velocity
    /\ last' = "resolve_axes"
    /\ UNCHANGED <<on_ground, wants_jump, axis, solids, tile_values, dt, ticks>>
    /\ UNCHANGED hist_vars
    /\ UNCHANGED game_vars

NextResolve == ResolveAxes

SpecResolve == InitResolve /\ [][NextResolve]_vars

\* C1: for a body that starts a tick clear of every solid tile and moves less
\* than one tile per axis, after resolve_horizontal and then resolve_vertical
\* the AABB does not overlap the interior of any solid tile.  The resolver
\* insets its spans by SKIN, so the statement is made granting it that
\* tolerance: an overlap of at most SKIN along one axis is not counted.  The
\* claim implies this statement, so a state violating it violates the claim
\* by more than the inset can explain.
C1_NoTunneling ==
    last = "resolve_axes" =>
        \A t \in solids : PenX(position, t) <= SKIN \/ PenY(position, t) <= SKIN

---------------------------------------------------------------------------
(* SpecKin: the player's components under the Input and Movement sets of a  *)
(* Playing frame (app.rs:40..45 chains Input before Movement): each frame   *)
(* read_player_input samples the keys and apply_kinematics then ticks with  *)
(* the frame's dt.  The body starts as spawned (player.rs:73..76: zero      *)
(* velocity, MovementState::default) at a placement set by the level data:  *)
(* flush on the floor, one SKIN above it (where a landing leaves it), or a  *)
(* short drop above it; under open sky, under a ceiling flush with the      *)
(* head, or beside a wall flush with the right edge.                        *)

\* the most kinematic ticks of a run
MaxTicks == 4
\* the frame time of a running frame, ms
FrameDt == 16
DtSet == {0, FrameDt}

FloorRow == TileCoord(Aligned.y - half.y, origin.y, tile_size.y) - 1
CeilingRow == TileCoord(Aligned.y + half.y, origin.y, tile_size.y)
WallColumn == TileCoord(Aligned.x + half.x, origin.x, tile_size.x)
Floor == {t \in ResolveTiles : t[2] = FloorRow}
Ceiling == {t \in ResolveTiles : t[2] = CeilingRow}
Wall == {t \in ResolveTiles : t[1] = WallColumn /\ t[2] > FloorRow /\ t[2] < CeilingRow}
KinMaps == {Floor, Floor \cup Ceiling, Floor \cup Wall}
Lifts == {0, SKIN, 5 * SKIN}

\* The foot is exactly on the top surface of a solid tile under the body.
OnTileTop(pos, sol) ==
    \E t \in sol : /\ PenX(pos, t) > 0
                   /\ origin.y + (t[2] + 1) * tile_size.y = pos.y - half.y

InitKin ==
    /\ solids \in KinMaps
    /\ tile_values = [t \in solids |-> 1]
    /\ position \in {[x |-> Aligned.x, y |-> Aligned.y + l] : l \in Lifts}
    /\ \A t \in solids : ~Overlaps(position, t)
    /\ velocity = [x |-> 0, y |-> 0]
    /\ on_ground = TRUE /\ wants_jump = FALSE /\ axis = 0
    /\ dt = 0
    /\ last = "spawn" /\ ticks = 0
    /\ press = FALSE /\ tick_info = NoTick /\ owed = FALSE /\ impulses = 0
    /\ start = position
    /\ rest = OnTileTop(position, solids)
    /\ GameAsBuilt

KinInput ==
    /\ last # "read_player_input"
    /\ ticks < MaxTicks
    /\ \E left \in BOOLEAN, right \in BOOLEAN, jump \in BOOLEAN :
           ReadPlayerInput(left, right, jump)
    /\ last' = "read_player_input"
    /\ UNCHANGED <<solids, tile_values, dt, ticks>>
    /\ UNCHANGED game_vars

KinTick ==
    /\ last = "read_player_input"
    /\ \E d \in DtSet : dt' = d /\ ApplyKinematics(d)
    /\ last' = "apply_kinematics"
    /\ ticks' = ticks + 1
    /\ UNCHANGED <<solids, tile_values>>
    /\ UNCHANGED game_vars

NextKin == KinInput \/ KinTick

SpecKin == InitKin /\ [][NextKin]_vars

\* C2: a body at rest exactly on a solid tile's top surface, with zero
\* velocity, no input and no jump intent, keeps on_ground = TRUE and its
\* position through any number of apply_kinematics ticks with dt = 0.
C2_GroundedIdempotence ==
    rest => on_ground /\ position = start

\* What line 188 computes, read off the state a tick leaves: the vertical pass
\* collided downward, or the foot probe finds ground under the new position.
GroundedAfterTick == tick_info.down \/ grounded_check(position, solids)

\* C3 (as claimed): a jump pressed while airborne is delivered once the body
\* becomes grounded and is not lost: as long as no impulse has answered the
\* press, the intent is still pending.
C3_AirbornePressNotLost ==
    owed => wants_jump

\* C3 (amended): the tick that follows a press made while airborne consumes
\* the press: it gives the impulse (velocity.y = jump_strength) exactly when
\* its own collision resolution finds the body grounded, and otherwise drops
\* the press; wants_jump is false after that tick, a dropped press never
\* gives an impulse later, and no press gives more than one impulse.
C3_AirbornePressConsumedOnce ==
    /\ impulses <= 1
    /\ owed => impulses = 0
    /\ (last = "apply_kinematics" /\ tick_info.air) =>
          /\ ~wants_jump
          /\ tick_info.jumped <=> GroundedAfterTick
          /\ tick_info.jumped => velocity.y = jump_strength /\ ~owed

\* C3 witness: a press made while airborne was honoured by the landing tick.
C3_Witness ==
    /\ last = "apply_kinematics"
    /\ tick_info.air /\ tick_info.down /\ tick_info.jumped
    /\ velocity.y = jump_strength

\* C9: a tick applies the jump impulse only if wants_jump was set when the
\* tick captured it and the tick's collision resolution found the body
\* grounded; the tick then ends with velocity.y = jump_strength and
\* on_ground = FALSE; upward velocity is gained in no other way, so there is
\* no jump in mid-air.
C9_JumpOnlyWhenGrounded ==
    [][ /\ (last' = "apply_kinematics" /\ tick_info'.jumped) =>
              /\ wants_jump
              /\ GroundedAfterTick'
              /\ velocity'.y = jump_strength
              /\ ~on_ground'
        /\ (velocity'.y > velocity.y /\ velocity'.y > 0) =>
              last' = "apply_kinematics" /\ tick_info'.jumped
      ]_vars

\* C9 witness: a tick has honoured a jump.
C9_Witness ==
    /\ last = "apply_kinematics"
    /\ tick_info.jumped /\ tick_info.wanted
    /\ velocity.y = jump_strength /\ ~on_ground

\* C10: wants_jump is false after every apply_kinematics tick, honoured or
\* not, and turns true only in read_player_input, on a jump press.
C10_IntentClearedEveryTick ==
    [][ /\ last' = "apply_kinematics" => ~wants_jump'
        /\ (~wants_jump /\ wants_jump') => (last' = "read_player_input" /\ press')
      ]_vars

\* C10 witness: a tick captured an intent, did not honour it, and cleared it.
C10_Witness ==
    /\ last = "apply_kinematics"
    /\ tick_info.wanted /\ ~tick_info.jumped
    /\ ~wants_jump

---------------------------------------------------------------------------
(* transition.rs: the trigger check and the fade state machine.  Alpha is   *)
(* a fraction <<numerator, denominator>>, so no rounding enters.            *)

\* collision.rs:56..58  CollisionMap::get_tile_value
get_tile_value(vals, tile) == IF tile \in DOMAIN vals THEN Some(vals[tile]) ELSE None

alpha_over_whole_duration(tr, timer, duration) ==
    IF ~tr THEN <<0, 1>>
    ELSE IF timer < duration \div 2 THEN <<timer, duration>>
    ELSE <<duration - (timer - duration \div 2), duration>>
alpha_without_idle_return(tr, timer, duration) ==
    LET half_duration == duration \div 2
    IN  IF timer < half_duration
          THEN <<timer, half_duration>>
          ELSE <<half_duration - (timer - half_duration), half_duration>>
\* transition.rs:59..72  TransitionState::get_fade_alpha
get_fade_alpha(tr, timer, duration) ==
    IF ~tr THEN <<0, 1>>
    ELSE LET half_duration == duration \div 2
         IN  IF timer < half_duration
               THEN <<timer, half_duration>>
               ELSE <<half_duration - (timer - half_duration), half_duration>>

\* transition.rs:186..196: the nine points of the collider that are sampled
SampleOffsets ==
    {[x |-> sx * half.x, y |-> sy * half.y] : sx \in {-1, 0, 1}, sy \in {-1, 0, 1}}

\* transition.rs:198..205: some sampled point lies in a tile of value 2
touches_trigger(pos, vals) ==
    \E o \in SampleOffsets :
        LET tile == <<TileCoord(pos.x + o.x, origin.x, tile_size.x),
                      TileCoord(pos.y + o.y, origin.y, tile_size.y)>>
        IN  get_tile_value(vals, tile) = Some(2)

never_skipped(tr) == FALSE
\* transition.rs:140..142: the early return while a transition is active
skipped_while_transitioning(tr) == tr

every_level_mapped(path) == TRUE
\* transition.rs:208..209: only the first level has a level to go to; a
\* missing LevelAssets.project_path counts as the first level
has_next_level(path) ==
    (IF path # None THEN path[1] ELSE Level1) = Level1

\* transition.rs:133..220.  player: None when get_single finds no player,
\* else Some(position of the player's Transform).
CheckLevelTriggers(player) ==
    /\ on_trigger' = (player # None /\ touches_trigger(player[1], tile_values))
    /\ IF /\ ~skipped_while_transitioning(is_transitioning)
          /\ player # None
          /\ touches_trigger(player[1], tile_values)
          /\ has_next_level(assets_project_path)
         THEN \* transition.rs:43..49  start_transition
              /\ is_transitioning' = TRUE
              /\ fade_timer' = 0
              /\ fade_duration' = FadeDuration
              /\ next_level_path' = Some(Level2)
              /\ next_level_name' = Some(Level_0)
              /\ swaps' = 0
         ELSE UNCHANGED <<transition_vars, swaps>>

\* transition.rs:237: the tick on which the timer reaches the midpoint
midpoint_reached(timer, d, half_duration) ==
    timer >= half_duration /\ f32(timer - d) < half_duration

\* transition.rs:238: what Option::take leaves behind
pending_taken(pending) == None

complete_at_half(timer, duration) == timer >= duration \div 2
\* transition.rs:246: the fade is complete
transition_complete(timer, duration) == timer >= duration

timer_stalled(timer, d) == timer
\* transition.rs:233: fade_timer += time.delta_seconds(), an f32 sum
advance_timer(timer, d) == f32(timer + d)

\* transition.rs:223..249 with dt = d.
UpdateTransition(d) ==
    IF ~is_transitioning
      THEN UNCHANGED <<transition_vars, project_path, start_level, next_state, swaps>>
    ELSE
      LET timer == advance_timer(fade_timer, d)
          half_duration == fade_duration \div 2
          taking == midpoint_reached(timer, d, half_duration)
          swapping == taking /\ next_level_path # None /\ next_level_name # None
          resetting == transition_complete(timer, fade_duration)
      IN  /\ IF swapping
               THEN /\ project_path' = next_level_path[1]
                    /\ start_level' = Some(next_level_name[1])
                    /\ next_state' = Some("Loading")
                    /\ swaps' = swaps + 1
               ELSE UNCHANGED <<project_path, start_level, next_state, swaps>>
          /\ UNCHANGED fade_duration
          /\ IF resetting
               THEN \* transition.rs:51..56  reset
                    /\ is_transitioning' = FALSE
                    /\ fade_timer' = 0
                    /\ next_level_path' = None
                    /\ next_level_name' = None
               ELSE /\ UNCHANGED is_transitioning
                    /\ fade_timer' = timer
                    /\ next_level_path' =
                         (IF taking THEN pending_taken(next_level_path) ELSE next_level_path)
                    /\ next_level_name' =
                         (IF taking THEN pending_taken(next_level_name) ELSE next_level_name)

---------------------------------------------------------------------------
(* state.rs, level.rs: the game-state machine. *)

\* state.rs:27..41.  esc: Escape was just pressed.
TogglePause(esc) ==
    next_state' = IF esc /\ game_state = "Playing" THEN Some("Paused")
                  ELSE IF esc /\ game_state = "Paused" THEN Some("Playing")
                  ELSE next_state

\* level.rs:127..185.  load: the asset server's load state of the project.
\* LevelAssets.project is Some since spawn_world ran on entering Loading.
\* On Loaded the level's metadata is cached, the origin with it.
MonitorLevelLoading(load) ==
    /\ next_state' = IF load \in {"Loaded", "Failed"} THEN Some("Playing") ELSE next_state
    /\ level_origin' = IF load = "Loaded" THEN Some(origin) ELSE level_origin

\* level.rs:90..125  spawn_world, run on entering Loading: the old LevelRoot
\* and everything under it is despawned, the project is requested from the
\* asset server and a new LdtkWorldBundle is spawned.  Whether the plugin
\* reports the levels despawned this way is its own business.
SpawnWorld ==
    /\ assets_project_path' = Some(project_path)
    /\ world_cells' = <<>>
    /\ events' \in (IF world_cells = <<>> THEN {events}
                    ELSE {events, events \cup {"Despawned"}})
    /\ load_state' = "Loading"
    /\ map_fresh' = FALSE

\* the number of fade overlays the model tells apart
MaxOverlays == 2

\* transition.rs:104..119  spawn_fade_overlay, run on entering Playing: one
\* more FadeOverlay entity, whatever exists already.
SpawnFadeOverlay ==
    overlays' = IF overlays < MaxOverlays THEN overlays + 1 ELSE overlays

PlayerKept == UNCHANGED players
\* player.rs:80..86  despawn_player, run on leaving Playing
DespawnPlayer == players' = 0

\* The StateTransition schedule of a frame: a pending NextState becomes the
\* state, and the OnExit systems of the old state (player.rs:23) and the
\* OnEnter systems of the new one (level.rs:33, transition.rs:28) run.
StateTransition ==
    IF next_state = None
      THEN UNCHANGED <<game_state, next_state, assets_project_path,
                       world_cells, events, load_state, overlays, map_fresh, players>>
      ELSE /\ game_state' = next_state[1]
           /\ next_state' = None
           /\ IF game_state = "Playing" /\ next_state[1] # "Playing"
                THEN DespawnPlayer
                ELSE UNCHANGED players
           /\ IF game_state # "Playing" /\ next_state[1] = "Playing"
                THEN SpawnFadeOverlay
                ELSE UNCHANGED overlays
           /\ IF next_state[1] = "Loading" THEN SpawnWorld
              ELSE UNCHANGED <<assets_project_path, world_cells, events,
                               load_state, map_fresh>>

\* The Update systems that run in a frame spent in state gs: toggle_pause
\* (app.rs:47), monitor_level_loading (level.rs:34..37), and the Effects
\* systems (transition.rs:19..26), which are not ordered among themselves.
TransSystems(gs) ==
    {"toggle_pause"}
    \cup (IF gs = "Loading" THEN {"monitor_level_loading"} ELSE {})
    \cup (IF gs = "Playing" THEN {"check_level_triggers", "update_transition"} ELSE {})

---------------------------------------------------------------------------
(* SpecTrans: the frames of the running game as the transition sees them.  *)
(* A frame applies the pending state change, then runs the Update systems  *)
(* of the state in any order.  The movement systems are not run here: the  *)
(* player that check_level_triggers finds is an input of that system.      *)
(* Both levels are given the same tiles, a floor and one trigger tile.     *)

\* A frame time of about 16 ms, 0x1.062502p-6 s, in units of 2^-29 s.
FrameDelta == 8589953
QuarterSecond == Second \div 4
\* The largest f32 below 0.5 s.
JustBelowHalf == Second \div 2 - 2^4
TransDts == {0, FrameDelta, QuarterSecond, JustBelowHalf, 2 * Second}

TriggerTile == <<WallColumn + 1, FloorRow + 1>>
AtTrigger == [x |-> Aligned.x + tile_size.x, y |-> Aligned.y]
Players == {None, Some(Aligned), Some(AtTrigger)}

InitTrans ==
    /\ position = Aligned
    /\ velocity = [x |-> 0, y |-> 0]
    /\ on_ground = FALSE
    /\ wants_jump = FALSE
    /\ axis = 0
    /\ solids = Floor
    /\ tile_values = [t \in Floor \cup {TriggerTile} |-> IF t = TriggerTile THEN 2 ELSE 1]
    /\ dt = 0
    /\ last = "startup"
    /\ ticks = 0
    /\ press = FALSE
    /\ tick_info = NoTick
    /\ owed = FALSE
    /\ impulses = 0
    /\ start = position
    /\ rest = FALSE
    /\ GameAsBuilt

TransRest == <<body_vars, map_vars, hist_vars, ticks, world_vars>>

TransBeginFrame ==
    /\ todo = {}
    /\ \E d \in TransDts : dt' = d
    /\ StateTransition
    /\ todo' = TransSystems(game_state')
    /\ last' = "begin_frame"
    /\ UNCHANGED <<transition_vars, project_path, start_level, swaps, on_trigger>>
    /\ UNCHANGED <<body_vars, map_vars, hist_vars, ticks>>
    /\ UNCHANGED <<level_origin, first, batch, ran>>

TransTogglePause ==
    /\ "toggle_pause" \in todo
    /\ todo' = todo \ {"toggle_pause"}
    /\ \E esc \in BOOLEAN : TogglePause(esc)
    /\ last' = "toggle_pause"
    /\ UNCHANGED <<transition_vars, level_vars, game_state, swaps, on_trigger, dt>>
    /\ UNCHANGED TransRest

TransMonitorLevelLoading ==
    /\ "monitor_level_loading" \in todo
    /\ todo' = todo \ {"monitor_level_loading"}
    /\ \E load \in {"Loading", "Loaded", "Failed"} : MonitorLevelLoading(load)
    /\ last' = "monitor_level_loading"
    /\ UNCHANGED <<transition_vars, level_vars, game_state, swaps, on_trigger, dt>>
    /\ UNCHANGED <<body_vars, map_vars, hist_vars, ticks>>
    /\ UNCHANGED <<world_cells, events, players, load_state, overlays, first, batch, map_fresh, ran>>

TransCheckLevelTriggers ==
    /\ "check_level_triggers" \in todo
    /\ todo' = todo \ {"check_level_triggers"}
    /\ \E player \in Players : CheckLevelTriggers(player)
    /\ last' = "check_level_triggers"
    /\ UNCHANGED <<level_vars, state_vars, dt>>
    /\ UNCHANGED TransRest

TransUpdateTransition ==
    /\ "update_transition" \in todo
    /\ todo' = todo \ {"update_transition"}
    /\ UpdateTransition(dt)
    /\ last' = "update_transition"
    /\ UNCHANGED <<assets_project_path, game_state, on_trigger, dt>>
    /\ UNCHANGED TransRest

NextTrans ==
    \/ TransBeginFrame
    \/ TransTogglePause
    \/ TransMonitorLevelLoading
    \/ TransCheckLevelTriggers
    \/ TransUpdateTransition

SpecTrans == InitTrans /\ [][NextTrans]_vars

---------------------------------------------------------------------------
(* Claims about the level transition, under SpecTrans. *)

HalfDuration == fade_duration \div 2
\* A transition has been started and has run to its reset.
TransitionOver == ~is_transitioning /\ fade_duration # 0

\* C4: for every started transition and every sequence of frame times, the
\* level swap is done exactly once, on the tick at which fade_timer first
\* reaches half of fade_duration: not before the timer has reached the
\* midpoint, not left undone once it has, never a second time, and a
\* transition that is over has swapped.  The swap writes the pending level
\* into LevelConfig.
C4_SwapExactlyOnceAtMidpoint ==
    /\ swaps <= 1
    /\ is_transitioning => (swaps = 1 <=> fade_timer >= HalfDuration)
    /\ TransitionOver => swaps = 1
    /\ swaps = 1 => project_path = Level2 /\ start_level = Some(Level_0)

\* C5: while a transition is active, check_level_triggers leaves
\* TransitionState unchanged, whatever the player overlaps: no second
\* start, no reset of fade_timer, no overwritten pending level.
C5_ReentrancyGuard ==
    [][(is_transitioning /\ last' = "check_level_triggers")
          => UNCHANGED transition_vars]_vars

\* A trigger check ran on a player touching the trigger tile in the middle
\* of a fade whose pending level was still there.
C5_Witness ==
    /\ last = "check_level_triggers"
    /\ on_trigger
    /\ is_transitioning
    /\ fade_timer > 0
    /\ next_level_path = Some(Level2)

\* C6: the phases come in the order Idle, FadingOut, FadingIn, Idle: only
\* start_transition (in check_level_triggers) leaves Idle, and it starts at
\* timer 0 with a pending level; fade_timer never decreases while the
\* transition is active; the reset to Idle is done by update_transition
\* only when the advanced timer is at least fade_duration, and only after
\* the midpoint swap.
C6_PhaseOrder ==
    [][/\ (~is_transitioning /\ is_transitioning')
            => /\ last' = "check_level_triggers"
               /\ fade_timer' = 0
               /\ next_level_path' # None /\ next_level_name' # None
       /\ (is_transitioning /\ is_transitioning') => fade_timer' >= fade_timer
       /\ (is_transitioning /\ ~is_transitioning')
            => /\ last' = "update_transition"
               /\ f32(fade_timer + dt) >= fade_duration
               /\ swaps' = 1]_vars

\* C7: the pending level is Some exactly while a transition is in flight
\* and its timer is before the midpoint: None when no transition is
\* active, Some from start_transition to the midpoint, None from the
\* midpoint onward.
C7_PendingIffBeforeMidpoint ==
    /\ next_level_path # None <=> (is_transitioning /\ fade_timer < HalfDuration)
    /\ next_level_name # None <=> (is_transitioning /\ fade_timer < HalfDuration)

SameFraction(a, b) == a[1] * b[2] = b[1] * a[2]
FadeAlpha == get_fade_alpha(is_transitioning, fade_timer, fade_duration)

\* C8: the opacity is a function of fade_timer and fade_duration alone
\* while a transition is active: fade_timer / (fade_duration / 2) in the
\* first half, (fade_duration - fade_timer) / (fade_duration / 2) in the
\* second half, and 0 when no transition is active; for a duration of 1 s
\* it is 0.5 at 0.25 s, 1 at 0.5 s, 0.5 at 0.75 s and 0 at 1 s.
C8_OpacityIsLinearRamp ==
    /\ ~is_transitioning => FadeAlpha[1] = 0
    /\ is_transitioning =>
         /\ 2 * FadeAlpha[2] = fade_duration
         /\ fade_timer < HalfDuration => FadeAlpha[1] = fade_timer
         /\ fade_timer >= HalfDuration => FadeAlpha[1] = fade_duration - fade_timer
    /\ SameFraction(get_fade_alpha(TRUE, QuarterSecond, Second), <<1, 2>>)
    /\ SameFraction(get_fade_alpha(TRUE, 2 * QuarterSecond, Second), <<1, 1>>)
    /\ SameFraction(get_fade_alpha(TRUE, 3 * QuarterSecond, Second), <<1, 2>>)
    /\ SameFraction(get_fade_alpha(TRUE, Second, Second), <<0, 1>>)

\* A fade three quarters done, at half opacity on the way down.
C8_Witness ==
    /\ is_transitioning
    /\ fade_timer = 3 * QuarterSecond
    /\ SameFraction(FadeAlpha, <<1, 2>>)

---------------------------------------------------------------------------
(* SpecCorner: the resolver at a corner.  Init draws the body of            *)
(* SpecResolve beside a floor and a wall, or diagonally above a single      *)
(* tile; ResolveAxes applies both passes.                                   *)

LeftWallColumn == TileCoord(Aligned.x - half.x, origin.x, tile_size.x) - 1
LeftWall ==
    {t \in ResolveTiles : t[1] = LeftWallColumn /\ t[2] > FloorRow /\ t[2] < CeilingRow}
CornerMaps ==
    {Floor \cup Wall, Floor \cup LeftWall,
     {<<WallColumn, FloorRow>>}, {<<LeftWallColumn, FloorRow>>}}

InitCorner ==
    /\ position \in {[x |-> Aligned.x + ox, y |-> Aligned.y + oy] : ox \in Offsets, oy \in Offsets}
    /\ velocity \in {[x |-> vx, y |-> vy] : vx \in Speeds, vy \in Speeds}
    /\ dt = ResolveDt
    /\ Abs(velocity.x) * dt < tile_size.x
    /\ Abs(velocity.y) * dt < tile_size.y
    /\ solids \in CornerMaps
    /\ \A t \in solids : ~Overlaps(position, t)
    /\ tile_values = [t \in solids |-> 1]
    /\ on_ground = TRUE /\ wants_jump = FALSE /\ axis = 0
    /\ last = "init" /\ ticks = 0
    /\ press = FALSE /\ tick_info = NoTick /\ owed = FALSE /\ impulses = 0
    /\ start = position /\ rest = FALSE
    /\ GameAsBuilt

NextCorner == ResolveAxes

SpecCorner == InitCorner /\ [][NextCorner]_vars

\* The horizontal pass on the starting state, and the vertical pass on the
\* body it moved.
HorizontalFirst == resolve_horizontal(position, velocity.x, dt, solids)
VerticalOnNewX ==
    resolve_vertical([x |-> HorizontalFirst.x, y |-> position.y], velocity.y, dt, solids)

\* C11: within one tick the horizontal pass is resolved first and the
\* vertical pass takes its tile-column span from the x the horizontal pass
\* produced: the position and velocity after the tick are those of the
\* horizontal pass run to its end followed by the vertical pass on the moved
\* body, and so are a function of the starting state and the tiles.
C11_HorizontalThenVertical ==
    [][last' = "resolve_axes" =>
          /\ position' = [x |-> HorizontalFirst.x, y |-> VerticalOnNewX.y]
          /\ velocity' = [x |-> HorizontalFirst.vx, y |-> VerticalOnNewX.vy]]_vars

\* C11 witness: a body that moved diagonally into a corner, stopped by the
\* wall on its side and by the floor below it.
C11_Witness ==
    /\ last = "resolve_axes"
    /\ solids \in {Floor \cup Wall, Floor \cup LeftWall}
    /\ position.x # start.x /\ position.y # start.y
    /\ velocity = [x |-> 0, y |-> 0]
    /\ position.y = origin.y + (FloorRow + 1) * tile_size.y + half.y + SKIN
    /\ position.x \in {origin.x + WallColumn * tile_size.x - half.x - SKIN,
                       origin.x + (LeftWallColumn + 1) * tile_size.x + half.x + SKIN}

---------------------------------------------------------------------------
(* collision.rs: the collision map and its rebuild system. *)

\* collision.rs:35..40  CollisionMap::default, and what clear() leaves
\* (collision.rs:45..48).  The empty tuple is the function of empty domain.
EmptyMap == [solids |-> {}, tile_values |-> <<>>]

\* collision.rs:96..113: one cell of the query; cell = <<coordinate, value>>
insert_cell(m, cell) ==
    IF cell[2] > 0
      THEN [solids |-> IF cell[2] = 1 THEN m.solids \cup {cell[1]} ELSE m.solids,
            tile_values |-> (cell[1] :> cell[2]) @@ m.tile_values]
      ELSE m

\* collision.rs:96..114: the loop over the query, in the query's order
RECURSIVE insert_cells(_, _)
insert_cells(m, cells) ==
    IF cells = <<>> THEN m
    ELSE insert_cells(insert_cell(m, Head(cells)), Tail(cells))

never_cleared(read) == FALSE
\* collision.rs:74..83: a Despawned event was read
should_clear(read) == "Despawned" \in read
\* collision.rs:74..87: a Spawned event was read
needs_rebuild(read) == "Spawned" \in read

\* collision.rs:64..123.  The system reads every pending LevelEvent.
RebuildCollisionMap ==
    LET m == IF needs_rebuild(events) THEN insert_cells(EmptyMap, world_cells)
             ELSE IF should_clear(events) THEN EmptyMap
             ELSE [solids |-> solids, tile_values |-> tile_values]
    IN  /\ solids' = m.solids
        /\ tile_values' = m.tile_values
        /\ events' = {}
        /\ batch' = events
        /\ map_fresh' = (map_fresh \/ needs_rebuild(events))
        /\ first' = IF needs_rebuild(events) /\ first = None
                      THEN Some([cells |-> world_cells, solids |-> m.solids,
                                 tile_values |-> m.tile_values])
                      ELSE first

---------------------------------------------------------------------------
(* SpecMap: the collision map under the level events.  The LDtk plugin     *)
(* spawns a level (its IntGrid cells appear, Spawned is sent) and despawns *)
(* it (the cells go, Despawned is sent); rebuild_collision_map runs once a *)
(* frame, after any number of such events.  A level's cells come in any    *)
(* order, and a coordinate can come twice (two IntGrid layers, or two      *)
(* levels loaded as neighbours, whose GridCoords are their own).           *)

\* the most cells of a level
MaxCells == 2
CellChoices == {<<<<0, 0>>, 0>>, <<<<0, 0>>, 1>>, <<<<0, 0>>, 2>>, <<<<1, 0>>, 1>>}
RECURSIVE ListsUpTo(_, _)
ListsUpTo(S, n) ==
    IF n = 0 THEN {<<>>}
    ELSE LET shorter == ListsUpTo(S, n - 1)
         IN  shorter \cup {Append(l, x) : l \in shorter, x \in S}
CellLists == ListsUpTo(CellChoices, MaxCells) \ {<<>>}

InitMap ==
    /\ position = Aligned
    /\ velocity = [x |-> 0, y |-> 0]
    /\ on_ground = TRUE /\ wants_jump = FALSE /\ axis = 0
    /\ solids = EmptyMap.solids
    /\ tile_values = EmptyMap.tile_values
    /\ dt = 0
    /\ last = "startup" /\ ticks = 0
    /\ press = FALSE /\ tick_info = NoTick /\ owed = FALSE /\ impulses = 0
    /\ start = position /\ rest = FALSE
    /\ GameAsBuilt

MapRest == <<body_vars, hist_vars, dt, ticks, transition_vars, level_vars, state_vars,
             todo, swaps, on_trigger, players, level_origin, load_state, overlays, ran>>

LdtkSpawnLevel ==
    /\ world_cells = <<>>
    /\ world_cells' \in CellLists
    /\ events' = events \cup {"Spawned"}
    /\ last' = "ldtk_spawn"
    /\ UNCHANGED <<map_vars, first, batch, map_fresh>>
    /\ UNCHANGED MapRest

LdtkDespawnLevel ==
    /\ world_cells # <<>>
    /\ world_cells' = <<>>
    /\ events' = events \cup {"Despawned"}
    /\ last' = "ldtk_despawn"
    /\ UNCHANGED <<map_vars, first, batch, map_fresh>>
    /\ UNCHANGED MapRest

MapRebuild ==
    /\ RebuildCollisionMap
    /\ last' = "rebuild_collision_map"
    /\ UNCHANGED world_cells
    /\ UNCHANGED MapRest

NextMap == LdtkSpawnLevel \/ LdtkDespawnLevel \/ MapRebuild

SpecMap == InitMap /\ [][NextMap]_vars

---------------------------------------------------------------------------
(* Claims about the collision map, under SpecMap. *)

\* C12: every coordinate in solids has tile_values[coordinate] = 1, after
\* clear() and after every rebuild from any list of cells, a list that
\* names a coordinate twice with different values included.
C12_SolidsHaveValueOne ==
    \A c \in solids : get_tile_value(tile_values, c) = Some(1)

Count(cells, x) == Cardinality({i \in DOMAIN cells : cells[i] = x})
\* Two lists hold the same cells, whatever their order.
SameCells(a, b) ==
    /\ Len(a) = Len(b)
    /\ \A i \in DOMAIN a : Count(a, a[i]) = Count(b, a[i])
\* The map has just been rebuilt from the cells of the first population,
\* in some order.
Repopulated ==
    /\ last = "rebuild_collision_map"
    /\ needs_rebuild(batch)
    /\ first # None
    /\ SameCells(world_cells, first[1].cells)

\* C13: after a clear and a repopulation with the same cells, in any order,
\* is_solid and get_tile_value answer for every coordinate as they did
\* after the original population.
C13_ClearRebuildRoundTrip ==
    Repopulated => /\ solids = first[1].solids
                   /\ tile_values = first[1].tile_values

\* C14: once a Despawned event has been processed (and no Spawned with it)
\* the map is empty, is_solid false and get_tile_value None everywhere, and
\* an empty map stays empty until rebuild_collision_map processes a Spawned
\* event.
C14_NoStaleTilesAfterDespawn ==
    [][/\ (last' = "rebuild_collision_map"
              /\ "Despawned" \in batch' /\ "Spawned" \notin batch')
            => (solids' = {} /\ tile_values' = <<>>)
       /\ (solids = {} /\ tile_values = <<>> /\ (solids' # {} \/ tile_values' # <<>>))
            => (last' = "rebuild_collision_map" /\ "Spawned" \in batch')]_vars

\* C14 witness: a populated map was emptied by a Despawned event.
C14_Witness ==
    /\ last = "rebuild_collision_map"
    /\ batch = {"Despawned"}
    /\ first # None /\ first[1].solids # {}
    /\ solids = {} /\ tile_values = <<>>

---------------------------------------------------------------------------
(* SpecGame: whole frames of the running game.  A frame is PreUpdate (the  *)
(* clock, the asset server and the LDtk plugin advance), StateTransition,  *)
(* the Update systems of the state, then PostUpdate.  The asset server and *)
(* the LDtk plugin are the environment: a requested project becomes Loaded *)
(* or Failed in some later frame, and the level of a loaded project is     *)
(* spawned, with a Spawned event, in some frame after that.  The levels    *)
(* are inputs: each has a floor under its spawn point and a trigger tile   *)
(* on the spawn point.                                                     *)

\* the most frames in which the Playing systems run
MaxGameTicks == 5
\* the frame time of a frame that hitches for a quarter second, ms
HitchDt == 250
GameDts == {FrameDt, HitchDt}
\* movement.rs:145, transition.rs:233  Time::delta_seconds of the frame, on
\* the clock of the transition
delta_seconds(ms) == IF ms = HitchDt THEN QuarterSecond ELSE FrameDelta

\* transition.rs:81..96  SpawnPositions::default and SpawnPositions::get
SpawnOffset(path) ==
    IF path = Level2 THEN [x |-> 1140000, y |-> 11040000]
    ELSE [x |-> 6800000, y |-> 6800000]

\* player.rs:50..52  spawn_2d = origin + spawn_offset
SpawnPosition(path) ==
    [x |-> origin.x + SpawnOffset(path).x, y |-> origin.y + SpawnOffset(path).y]

\* The IntGrid cells of the level of a project: three floor tiles under the
\* spawn point and a trigger tile at it.
LevelCells(path) ==
    LET sp == SpawnPosition(path)
        col == TileCoord(sp.x, origin.x, tile_size.x)
        floor == TileCoord(sp.y - half.y, origin.y, tile_size.y) - 1
    IN  << <<<<col - 1, floor>>, 1>>, <<<<col, floor>>, 1>>, <<<<col + 1, floor>>, 1>>,
           <<<<col, TileCoord(sp.y, origin.y, tile_size.y)>>, 2>> >>

\* The systems of a frame spent in state gs: the Update systems, and the
\* PostUpdate systems of level.rs:38..44 and collision.rs:19..25, which no
\* run condition gates.
GameSystems(gs) ==
    TransSystems(gs)
    \cup (IF gs = "Playing"
            THEN {"spawn_player_if_needed", "read_player_input", "apply_kinematics"}
            ELSE {})
    \cup {"cache_level_transform", "rebuild_collision_map"}

UpdateSystems ==
    {"toggle_pause", "monitor_level_loading", "spawn_player_if_needed",
     "read_player_input", "apply_kinematics", "check_level_triggers",
     "update_transition"}

\* The systems that have run before system s runs: app.rs:40..45 chains
\* Input, Movement, Effects; the player spawned by spawn_player_if_needed is
\* a command, which the other Update systems of the frame do not see;
\* PostUpdate follows Update, and collision.rs:22 puts rebuild_collision_map
\* after the level systems.
Before(s) ==
    CASE s = "apply_kinematics" -> {"read_player_input"}
      [] s \in {"check_level_triggers", "update_transition"} ->
             {"read_player_input", "apply_kinematics"}
      [] s = "spawn_player_if_needed" -> UpdateSystems \ {s}
      [] s = "cache_level_transform" -> UpdateSystems
      [] s = "rebuild_collision_map" -> UpdateSystems \cup {"cache_level_transform"}
      [] OTHER -> {}

\* System s runs now.
Run(s) ==
    /\ s \in todo
    /\ Before(s) \cap todo = {}
    /\ todo' = todo \ {s}
    /\ ran' = ran \cup {s}
    /\ last' = s

always_spawned(n) == TRUE
\* player.rs:41..43: no player exists yet
no_player_exists(n) == n = 0

\* player.rs:34..78
SpawnPlayerIfNeeded ==
    IF no_player_exists(players) /\ level_origin # None
      THEN /\ players' = players + 1
           /\ position' = SpawnPosition(IF assets_project_path # None
                                          THEN assets_project_path[1] ELSE Level1)
           /\ velocity' = [x |-> 0, y |-> 0]
           /\ on_ground' = TRUE /\ wants_jump' = FALSE /\ axis' = 0
           /\ press' = FALSE /\ tick_info' = NoTick /\ owed' = FALSE /\ impulses' = 0
           /\ start' = position' /\ rest' = FALSE
      ELSE UNCHANGED <<players, body_vars, hist_vars>>

\* level.rs:187..209.  added: a level entity was spawned since the last run.
CacheLevelTransform(added) ==
    level_origin' = IF added THEN Some(origin) ELSE level_origin

\* The keys of a frame: none, right held, jump pressed.
GameKeys == {<<FALSE, FALSE>>, <<TRUE, FALSE>>, <<FALSE, TRUE>>}

InitGame ==
    /\ position = Aligned
    /\ velocity = [x |-> 0, y |-> 0]
    /\ on_ground = TRUE /\ wants_jump = FALSE /\ axis = 0
    /\ solids = EmptyMap.solids
    /\ tile_values = EmptyMap.tile_values
    /\ dt = 0
    /\ last = "startup" /\ ticks = 0
    /\ press = FALSE /\ tick_info = NoTick /\ owed = FALSE /\ impulses = 0
    /\ start = position /\ rest = FALSE
    /\ GameAsBuilt

\* First and PreUpdate: the clock, the asset server, the LDtk plugin.
GamePreUpdate ==
    /\ todo = {}
    /\ ticks < MaxGameTicks
    /\ \E d \in GameDts : dt' = d
    /\ \/ /\ load_state = "Loading"
          /\ load_state' \in {"Loading", "Loaded", "Failed"}
          /\ ran' = {}
          /\ UNCHANGED <<world_cells, events>>
       \/ /\ load_state = "Loaded" /\ world_cells = <<>>
          /\ world_cells' = LevelCells(assets_project_path[1])
          /\ events' = events \cup {"Spawned"}
          /\ ran' = {"ldtk_spawn"}
          /\ UNCHANGED load_state
       \/ /\ load_state # "Loading"
          /\ ran' = {}
          /\ UNCHANGED <<load_state, world_cells, events>>
    /\ todo' = {"state_transition"}
    /\ last' = "pre_update"
    /\ UNCHANGED <<body_vars, map_vars, hist_vars, ticks, transition_vars, level_vars,
                   state_vars, swaps, on_trigger, players, level_origin,
                   overlays, first, batch, map_fresh>>

GameStateTransition ==
    /\ "state_transition" \in todo
    /\ StateTransition
    /\ todo' = GameSystems(game_state')
    /\ last' = "state_transition"
    /\ UNCHANGED <<body_vars, map_vars, hist_vars, dt, ticks, transition_vars,
                   project_path, start_level, swaps, on_trigger, level_origin,
                   first, batch, ran>>

GameTogglePause ==
    /\ Run("toggle_pause")
    /\ \E esc \in BOOLEAN : TogglePause(esc)
    /\ UNCHANGED <<body_vars, map_vars, hist_vars, dt, ticks, transition_vars,
                   level_vars, game_state, swaps, on_trigger, world_cells, events,
                   players, level_origin, load_state, overlays, first, batch, map_fresh>>

GameMonitorLevelLoading ==
    /\ Run("monitor_level_loading")
    /\ MonitorLevelLoading(load_state)
    /\ UNCHANGED <<body_vars, map_vars, hist_vars, dt, ticks, transition_vars,
                   level_vars, game_state, swaps, on_trigger, world_cells, events,
                   players, load_state, overlays, first, batch, map_fresh>>

GameSpawnPlayerIfNeeded ==
    /\ Run("spawn_player_if_needed")
    /\ SpawnPlayerIfNeeded
    /\ UNCHANGED <<map_vars, dt, ticks, transition_vars, level_vars, state_vars,
                   swaps, on_trigger, world_cells, events, level_origin, load_state, overlays,
                   first, batch, map_fresh>>

GameReadPlayerInput ==
    /\ Run("read_player_input")
    /\ IF players > 0
         THEN \E k \in GameKeys : ReadPlayerInput(FALSE, k[1], k[2])
         ELSE UNCHANGED <<body_vars, hist_vars>>
    /\ UNCHANGED <<map_vars, dt, ticks, transition_vars, level_vars, state_vars,
                   swaps, on_trigger, world_cells, events, players, level_origin,
                   load_state, overlays, first, batch, map_fresh>>

GameApplyKinematics ==
    /\ Run("apply_kinematics")
    /\ ticks' = ticks + 1
    /\ IF players > 0
         THEN ApplyKinematics(dt)
         ELSE UNCHANGED <<body_vars, hist_vars>>
    /\ UNCHANGED <<map_vars, dt, transition_vars, level_vars, state_vars,
                   swaps, on_trigger, world_cells, events, players, level_origin,
                   load_state, overlays, first, batch, map_fresh>>

GameCheckLevelTriggers ==
    /\ Run("check_level_triggers")
    /\ CheckLevelTriggers(IF players = 1 THEN Some(position) ELSE None)
    /\ UNCHANGED <<body_vars, map_vars, hist_vars, dt, ticks, level_vars, state_vars,
                   world_cells, events, players, level_origin, load_state, overlays,
                   first, batch, map_fresh>>

GameUpdateTransition ==
    /\ Run("update_transition")
    /\ UpdateTransition(delta_seconds(dt))
    /\ UNCHANGED <<body_vars, map_vars, hist_vars, dt, ticks, assets_project_path,
                   game_state, on_trigger, world_cells, events, players,
                   level_origin, load_state, overlays, first, batch, map_fresh>>

GameCacheLevelTransform ==
    /\ Run("cache_level_transform")
    /\ CacheLevelTransform("ldtk_spawn" \in ran)
    /\ UNCHANGED <<body_vars, map_vars, hist_vars, dt, ticks, transition_vars,
                   level_vars, state_vars, swaps, on_trigger, world_cells, events,
                   players, load_state, overlays, first, batch, map_fresh>>

GameRebuildCollisionMap ==
    /\ Run("rebuild_collision_map")
    /\ RebuildCollisionMap
    /\ UNCHANGED <<body_vars, hist_vars, dt, ticks, transition_vars, level_vars,
                   state_vars, swaps, on_trigger, world_cells, players,
                   level_origin, load_state, overlays>>

NextGame ==
    \/ GamePreUpdate
    \/ GameStateTransition
    \/ GameTogglePause
    \/ GameMonitorLevelLoading
    \/ GameSpawnPlayerIfNeeded
    \/ GameReadPlayerInput
    \/ GameApplyKinematics
    \/ GameCheckLevelTriggers
    \/ GameUpdateTransition
    \/ GameCacheLevelTransform
    \/ GameRebuildCollisionMap

SpecGame == InitGame /\ [][NextGame]_vars

---------------------------------------------------------------------------
(* Claims about whole frames, under SpecGame. *)

\* C15: the collision map is cleared or rebuilt only while the Loading state
\* gates the movement ticks off: no run of rebuild_collision_map that reads
\* a level event happens in a frame in which apply_kinematics or
\* check_level_triggers has run, and every tick that moves a player reads a
\* map rebuilt for the level that spawn_world requested last.
C15_MapMutatedOnlyWhileLoading ==
    /\ (last = "rebuild_collision_map" /\ batch # {}) =>
          /\ game_state = "Loading"
          /\ "apply_kinematics" \notin ran
          /\ "check_level_triggers" \notin ran
    /\ (last = "apply_kinematics" /\ players > 0) => map_fresh

\* C18: at most one player entity exists in every state; a player is created
\* only by spawn_player_if_needed, in the Playing state and with the level
\* origin known; and once the game has left Playing, for Paused or Loading,
\* no player exists.
C18_PlayerLifecycle ==
    [][ /\ players' <= 1
        /\ players' > players =>
              /\ last' = "spawn_player_if_needed"
              /\ game_state = "Playing"
              /\ level_origin # None
        /\ game_state' # "Playing" => players' = 0
      ]_vars

\* C18 witness: a player was spawned in the first level and has fallen for
\* a tick, and the game then left Playing for Paused, which despawned it.
C18_Witness ==
    /\ last = "state_transition"
    /\ game_state = "Paused"
    /\ players = 0
    /\ start = SpawnPosition(Level1)
    /\ velocity.y < 0

---------------------------------------------------------------------------
(* Further claims about the level transition, under SpecTrans. *)

\* C16: a transition cannot be cancelled.  Once is_transitioning is true it
\* turns false only in the update_transition run whose advanced fade_timer
\* has reached fade_duration; until then no step (pause toggle, trigger
\* overlap, level reload) sets it false or moves fade_timer back, and only
\* update_transition moves fade_timer at all; a transition starts only from
\* the idle state, in check_level_triggers.
C16_TransitionCannotBeCancelled ==
    [][ /\ (is_transitioning /\ ~is_transitioning') =>
              /\ last' = "update_transition"
              /\ f32(fade_timer + dt) >= fade_duration
        /\ (is_transitioning /\ is_transitioning') => fade_timer' >= fade_timer
        /\ (is_transitioning /\ last' # "update_transition") =>
              UNCHANGED <<is_transitioning, fade_timer, fade_duration>>
        /\ (fade_timer' = 0 /\ is_transitioning') =>
              (~is_transitioning \/ fade_timer = 0)
        /\ (~is_transitioning /\ is_transitioning') => last' = "check_level_triggers"
      ]_vars

\* C16 witness: after the level swap and the reload, with the fade past its
\* midpoint, the player overlapped a trigger again and the fade went on.
C16_Witness ==
    /\ last = "check_level_triggers"
    /\ on_trigger
    /\ is_transitioning
    /\ swaps = 1
    /\ fade_timer > HalfDuration

\* C17: in a level that has no level to go to (levels/level_2.ldtk) a run of
\* check_level_triggers starts no transition and leaves TransitionState as
\* it was, on every tick, trigger overlap or not.
C17_NoMappingNoTransition ==
    [][ (last' = "check_level_triggers" /\ assets_project_path = Some(Level2)) =>
            UNCHANGED transition_vars ]_vars

\* C17 witness: in the second level, with no transition active, the player
\* overlapped a trigger tile and nothing started.
C17_Witness ==
    /\ last = "check_level_triggers"
    /\ on_trigger
    /\ assets_project_path = Some(Level2)
    /\ ~is_transitioning
    /\ fade_timer = 0

\* C20: get_fade_alpha is a number between 0 and 1 in every state, the
\* states before the first transition (fade_duration = 0) included: the
\* fraction has a positive denominator and 0 <= numerator <= denominator.
C20_AlphaInUnitInterval ==
    /\ FadeAlpha[2] > 0
    /\ 0 <= FadeAlpha[1]
    /\ FadeAlpha[1] <= FadeAlpha[2]

\* C20 witness: frames have run and no transition has ever started.
C20_Witness ==
    /\ last = "update_transition"
    /\ ~is_transitioning
    /\ fade_duration = 0
    /\ FadeAlpha[1] = 0

---------------------------------------------------------------------------
(* SpecFall: the kinematic tick from any vertical state of the body.  The  *)
(* body starts over the floor or over nothing, airborne or grounded,       *)
(* rising, at rest, falling, or falling at about the terminal velocity     *)
(* (which a long fall reaches); SpecKin's frames follow.                   *)

FallSpeeds == {terminal_velocity, terminal_velocity + 5 * gravity,
               0 - jump_strength, 0, jump_strength}

InitFall ==
    /\ solids \in {Floor, {}}
    /\ tile_values = [t \in solids |-> 1]
    /\ position \in {[x |-> Aligned.x, y |-> Aligned.y + l] : l \in Lifts}
    /\ velocity \in {[x |-> 0, y |-> vy] : vy \in FallSpeeds}
    /\ on_ground \in BOOLEAN
    /\ wants_jump = FALSE /\ axis = 0
    /\ dt = 0
    /\ last = "spawn" /\ ticks = 0
    /\ press = FALSE /\ tick_info = NoTick /\ owed = FALSE /\ impulses = 0
    /\ start = position
    /\ rest = FALSE
    /\ GameAsBuilt

NextFall == KinInput \/ KinTick

SpecFall == InitFall /\ [][NextFall]_vars

\* The vertical velocity the gravity step of C19 leaves, for a body with
\* vertical velocity vy and grounded flag og, in a tick of d ms.
AfterGravity(vy, og, d) ==
    IF ~og THEN (IF vy - gravity * d > terminal_velocity
                   THEN vy - gravity * d ELSE terminal_velocity)
    ELSE IF vy < 0 THEN 0
    ELSE vy

\* C19: in every tick the gravity step turns the vertical velocity vy of an
\* airborne body into max(vy - gravity * dt, terminal_velocity), that of a
\* grounded body with vy < 0 into 0, and leaves that of a grounded body with
\* vy >= 0 alone; the tick ends with that velocity unless its vertical pass
\* collided (0) or it jumped (jump_strength); and velocity.y is never below
\* terminal_velocity after a tick.
C19_GravityStep ==
    [][ last' = "apply_kinematics" =>
          /\ velocity'.y = (IF tick_info'.jumped THEN jump_strength
                            ELSE IF tick_info'.down \/ tick_info'.up THEN 0
                            ELSE AfterGravity(velocity.y, on_ground, dt'))
          /\ velocity'.y >= terminal_velocity
      ]_vars

\* C19 witness: the tick of an airborne body clamped its fall at the
\* terminal velocity.
C19_Witness ==
    /\ last = "apply_kinematics"
    /\ dt = FrameDt
    /\ ~tick_info.down /\ ~tick_info.jumped
    /\ velocity.y = terminal_velocity
    /\ position.y < start.y - 2 * tile_size.y

---------------------------------------------------------------------------
(* SpecVertical: the vertical pass as a function of its inputs.  Init is   *)
(* SpecResolve's: a body clear of every solid tile, a vertical velocity    *)
(* down, zero or up, and a tile configuration; ResolveVertical applies the *)
(* pass and records the VerticalCollision it returns.                      *)

ResolveVertical ==
    /\ last = "init"
    /\ LET v == resolve_vertical(position, velocity.y, dt, solids)
       IN  /\ position' = [position EXCEPT !.y = v.y]
           /\ velocity' = [velocity EXCEPT !.y = v.vy]
           /\ tick_info' = [NoTick EXCEPT !.down = v.down, !.up = v.up]
    /\ last' = "resolve_vertical"
    /\ UNCHANGED <<on_ground, wants_jump, axis, solids, tile_values, dt, ticks>>
    /\ UNCHANGED <<press, owed, impulses, start, rest>>
    /\ UNCHANGED game_vars

NextVertical == ResolveVertical

SpecVertical == InitResolve /\ [][NextVertical]_vars

\* The row that the leading edge of a body at pos reaches when it moves by
\* vy * d in direction dir holds a solid tile under the body's footprint.
DestinationBlocked(pos, vy, d, dir, sol) ==
    LET edge == pos.y + vy * d + dir * half.y
        row == TileCoord(edge, origin.y, tile_size.y)
    IN  \E t \in sol :
           /\ t[2] = row
           /\ t[1] >= TileCoord(pos.x - half.x + SKIN, origin.x, tile_size.x)
           /\ t[1] <= TileCoord(pos.x + half.x - SKIN, origin.x, tile_size.x)

\* What C21 says of the pass for every velocity but zero.
VerticalFlagsSound ==
    [][ last' = "resolve_vertical" =>
          /\ tick_info'.down =>
                (velocity.y < 0 /\ DestinationBlocked(position, velocity.y, dt, -1, solids))
          /\ tick_info'.up =>
                (velocity.y >= 0 /\ DestinationBlocked(position, velocity.y, dt, 1, solids))
          /\ ~(tick_info'.down /\ tick_info'.up)
          /\ (tick_info'.down \/ tick_info'.up) => velocity'.y = 0
      ]_vars

\* C21: the vertical pass reports collided-downward only when velocity.y < 0
\* before the pass and the destination row is blocked, collided-upward only
\* when velocity.y > 0 and blocked, never both; it zeroes velocity.y on
\* either; and a body whose velocity.y is exactly 0 gets neither flag and
\* keeps its position.y.
C21_VerticalFlags ==
    [][ last' = "resolve_vertical" =>
          /\ tick_info'.down =>
                (velocity.y < 0 /\ DestinationBlocked(position, velocity.y, dt, -1, solids))
          /\ tick_info'.up =>
                (velocity.y > 0 /\ DestinationBlocked(position, velocity.y, dt, 1, solids))
          /\ ~(tick_info'.down /\ tick_info'.up)
          /\ (tick_info'.down \/ tick_info'.up) => velocity'.y = 0
          /\ velocity.y = 0 =>
                (~tick_info'.down /\ ~tick_info'.up /\ position'.y = position.y)
      ]_vars

---------------------------------------------------------------------------
(* SpecLand: the kinematic tick near the end of a ledge.  The floor ends   *)
(* under the body; the body is spawned a short drop above it, its left     *)
(* side over the ledge by a tile, by one step of walking from rest and     *)
(* half a SKIN more, or by that step and two SKINs more.  SpecKin's frames *)
(* follow.                                                                 *)

Ledge == {t \in Floor : t[1] <= 1}
\* the distance a body at rest on the ground walks in its first frame
WalkStep == ground_accel * FrameDt * FrameDt
LedgeOverlaps == {tile_size.x, WalkStep + SKIN \div 2, WalkStep + 2 * SKIN}

InitLand ==
    /\ solids \in {Ledge, Floor, Floor \cup Ceiling}
    /\ tile_values = [t \in solids |-> 1]
    /\ position \in {[x |-> 2 * tile_size.x + half.x - o, y |-> Aligned.y + l] :
                       o \in LedgeOverlaps, l \in Lifts}
    /\ \A t \in solids : ~Overlaps(position, t)
    /\ velocity = [x |-> 0, y |-> 0]
    /\ on_ground = TRUE /\ wants_jump = FALSE /\ axis = 0
    /\ dt = 0
    /\ last = "spawn" /\ ticks = 0
    /\ press = FALSE /\ tick_info = NoTick /\ owed = FALSE /\ impulses = 0
    /\ start = position
    /\ rest = FALSE
    /\ GameAsBuilt

NextLand == KinInput \/ KinTick

SpecLand == InitLand /\ [][NextLand]_vars

---------------------------------------------------------------------------
(* Claims about the level swap and the pause, under SpecTrans. *)

\* LevelConfig names a level that spawn_world has not been run for: the
\* midpoint swap has consumed the pending level and the reload is owed.
ReloadOwed == project_path # assets_project_path[1]

\* C23: whenever the midpoint swap has consumed the pending level and
\* written LevelConfig, the game enters Loading next and spawn_world reloads
\* the level, also when Escape is pressed in the same frame: at the end of
\* every frame in which a reload is owed, the pending NextState is Loading.
C23_SwapAlwaysReloads ==
    (todo = {} /\ ReloadOwed) => next_state = Some("Loading")

---------------------------------------------------------------------------
(* SpecTransLive: the frame loop of SpecTrans with the scheduler's         *)
(* guarantees.  The app runs frame after frame, and in each frame every    *)
(* system whose run condition holds is run (app.rs:40..47,                 *)
(* transition.rs:19..26, level.rs:34..37).  What the player and the asset  *)
(* server do is not constrained.  Frame times are a stalled clock, a       *)
(* tenth of a second (0.1f32, not a dyadic fraction, so the timer's sums   *)
(* round) and a quarter of a second.                                       *)

TenthSecond == f32(Second \div 10)

LiveDts == {0, TenthSecond, QuarterSecond}

LiveBeginFrame == TransBeginFrame /\ dt' \in LiveDts

NextLive ==
    \/ LiveBeginFrame
    \/ TransTogglePause
    \/ TransMonitorLevelLoading
    \/ TransCheckLevelTriggers
    \/ TransUpdateTransition

SpecTransLive ==
    /\ InitTrans /\ [][NextLive]_vars
    /\ WF_vars(LiveBeginFrame)
    /\ WF_vars(TransTogglePause)
    /\ WF_vars(TransMonitorLevelLoading)
    /\ WF_vars(TransCheckLevelTriggers)
    /\ WF_vars(TransUpdateTransition)

\* TransitionState::default, which reset() restores (transition.rs:51..56)
Idle ==
    /\ ~is_transitioning /\ fade_timer = 0
    /\ next_level_path = None /\ next_level_name = None

\* C24: if ticks with dt > 0 keep occurring in the Playing state (which
\* takes every level load to end, Loaded or Failed, and every pause to be
\* resumed), every started transition eventually returns to Idle.
C24_TransitionEnds ==
    ([]<><<TransUpdateTransition /\ dt > 0>>_vars) => (is_transitioning ~> Idle)

\* The same without the assumption's "dt > 0": a clock that stands still
\* keeps the fade where it is.
TransitionEndsAtAnyDt ==
    ([]<><<TransUpdateTransition>>_vars) => (is_transitioning ~> Idle)

\* C24 witness: a transition was started, the level was swapped and loaded,
\* and the tick that completed the fade has returned the state to Idle.
C24_Witness ==
    /\ last = "update_transition"
    /\ Idle
    /\ swaps = 1
    /\ fade_duration = FadeDuration
    /\ assets_project_path = Some(Level2)


---------------------------------------------------------------------------
(* SpecSpeed: the default spawned body over a floor or over nothing, with  *)
(* frame times long enough for the speed limits to be reached: a stalled   *)
(* clock, one 60 Hz frame, a quarter-second hitch and a one-second stall.  *)

MaxSpeedTicks == 3
\* a frame that takes a whole second, ms
LongDt == 1000
SpeedDts == {0, FrameDt, HitchDt, LongDt}

InitSpeed ==
    /\ solids \in {Floor, {}}
    /\ tile_values = [t \in solids |-> 1]
    /\ position = [x |-> Aligned.x, y |-> Aligned.y + SKIN]
    /\ velocity = [x |-> 0, y |-> 0]
    /\ on_ground = TRUE /\ wants_jump = FALSE /\ axis = 0
    /\ dt = 0
    /\ last = "spawn" /\ ticks = 0
    /\ press = FALSE /\ tick_info = NoTick /\ owed = FALSE /\ impulses = 0
    /\ start = position
    /\ rest = FALSE
    /\ GameAsBuilt

SpeedInput ==
    /\ last # "read_player_input"
    /\ ticks < MaxSpeedTicks
    /\ \E left \in BOOLEAN, right \in BOOLEAN, jump \in BOOLEAN :
           ReadPlayerInput(left, right, jump)
    /\ last' = "read_player_input"
    /\ UNCHANGED <<solids, tile_values, dt, ticks>>
    /\ UNCHANGED game_vars

SpeedTick ==
    /\ last = "read_player_input"
    /\ \E d \in SpeedDts : dt' = d /\ ApplyKinematics(d)
    /\ last' = "apply_kinematics"
    /\ ticks' = ticks + 1
    /\ UNCHANGED <<solids, tile_values>>
    /\ UNCHANGED game_vars

NextSpeed == SpeedInput \/ SpeedTick

SpecSpeed == InitSpeed /\ [][NextSpeed]_vars

\* C25: from the default spawned state, after every tick the horizontal
\* speed is at most ground_max_speed and the vertical velocity lies between
\* terminal_velocity and jump_strength.
C25_VelocityBounds ==
    /\ Abs(velocity.x) <= ground_max_speed
    /\ terminal_velocity <= velocity.y
    /\ velocity.y <= jump_strength

\* C25 witness: a quarter-second tick on the ground with the right key held
\* has taken the body from rest to exactly the ground speed limit.
C25_Witness ==
    /\ last = "apply_kinematics"
    /\ ticks = 1 /\ dt = HitchDt
    /\ velocity.x = ground_max_speed

\* The upper vertical bound is met: a tick has honoured a jump.
JumpsAtJumpStrength ==
    /\ last = "apply_kinematics"
    /\ tick_info.jumped
    /\ velocity.y = jump_strength

\* The lower bound is met as well: a fall has been clamped at the terminal
\* velocity while the body steers at the air speed limit.
FallsAtTerminalVelocity ==
    /\ last = "apply_kinematics"
    /\ velocity.y = terminal_velocity
    /\ velocity.x = 0 - air_max_speed

---------------------------------------------------------------------------
(* The player across a pause, under SpecGame. *)

\* The spawn position of the level that is loaded (player.rs:50..52)
ConfiguredSpawn ==
    SpawnPosition(IF assets_project_path # None THEN assets_project_path[1] ELSE Level1)

\* C26: every step that leaves Playing, for Paused or for Loading, leaves no
\* player; every player that appears is a new one, at the configured spawn
\* position of the level with zero velocity, on_ground true and no jump
\* intent, whatever the body held before; and every frame spent in Playing
\* with the level origin known ends with a player, so the game resumes from
\* a pause with a player in its spawned state.
C26_PauseResetsPlayer ==
    [][ /\ (game_state = "Playing" /\ game_state' # "Playing") => players' = 0
        /\ players' > players =>
              /\ position' = ConfiguredSpawn
              /\ velocity' = [x |-> 0, y |-> 0]
              /\ on_ground' /\ ~wants_jump'
        /\ (last' = "spawn_player_if_needed" /\ level_origin # None) => players' = 1
        /\ (game_state' = "Playing" /\ todo' = {} /\ level_origin' # None)
              => players' = 1
      ]_vars

\* C26 witness: the third Playing frame spawns a player in the first level.
\* The level origin never changes back to unknown, so the first Playing
\* frame spawned one too, which fell during the second and was despawned
\* by a pause before this frame.
C26_Witness ==
    /\ last = "spawn_player_if_needed"
    /\ game_state = "Playing"
    /\ ticks = 3
    /\ players = 1
    /\ tick_info = NoTick
    /\ position = SpawnPosition(Level1)
    /\ velocity = [x |-> 0, y |-> 0]
    /\ on_ground /\ ~wants_jump
    /\ swaps = 0

---------------------------------------------------------------------------
(* The fade overlay, under SpecGame. *)

\* C27: at most one fade overlay entity exists at any time, for every
\* sequence of entries into the Playing state.
C27_SingleFadeOverlay == overlays <= 1
===========================================================================
